---- MODULE Spec2Model ----
(***************************************************************************)
(* Equipment-rental tracker (src/app.js): the ledger kept in localStorage  *)
(* (assets, rentals), the hash router, the dashboard's delegated click     *)
(* listeners, check-out (rent-form submit), check-in (handleCheckIn),      *)
(* add-equipment, and the status derivations of the dashboard and the      *)
(* history view.                                                           *)
(*                                                                         *)
(* Timestamps are integers in milliseconds.  The code stores them as ISO   *)
(* strings (toISOString) and reads them back with new Date(iso); both keep *)
(* the millisecond value, and every comparison in the code is on the Date  *)
(* values, so a timestamp is modelled by its millisecond value.            *)
(* Asset fields that no operation reads or writes after creation (name,    *)
(* category, description, quantity, imageEmoji) and the rental's customer, *)
(* fuel, odometer and notes fields are left out of the records.            *)
(***************************************************************************)
EXTENDS Integers, Sequences, FiniteSets, TLC

VARIABLES
  assets,       \* localStorage['srt_assets']: sequence of asset records
  rentals,      \* localStorage['srt_rentals']: sequence of rental records
  now,          \* the wall clock (Date.now()), in ms
  hash,         \* window.location.hash, reduced to its path
  listeners,    \* number of click listeners registered on #app
  pendingAsset, \* data-id of the Check In button whose click is being dispatched
  pendingLeft,  \* listeners of that click still to be invoked
  alertMsg,     \* message passed to alert() by the last step ("" when none)
  pair,         \* observer: store snapshot taken at the last check-out,
                \* followed while a check-in of the same asset comes next
  kv,           \* the raw content of localStorage and the last storage.set
                \* and storage.get on it (followed in SpecStorage only)
  invalid,      \* name of the rent-form field the browser's validation
                \* reported at the last submission attempt ("" when none)
  crashed       \* an exception escaped the top-level script of the page

vars == <<assets, rentals, now, hash, listeners, pendingAsset, pendingLeft,
          alertMsg, pair, kv, invalid, crashed>>

\* the variables the session's handlers of Spec leave alone
aux == <<kv, invalid, crashed>>

-----------------------------------------------------------------------------
(* Bounds *)

MaxSamples == 1
MaxRentals == 5
MaxListeners == 4
MaxNewAssets == 1
MaxLen == 2
MaxMissing == 1

-----------------------------------------------------------------------------
(* Constants of the program *)

MS_PER_DAY == 1000 * 60 * 60 * 24

\* returnedAt: null (every timestamp of the model is >= 0)
null == -1

\* Date.now() when seedIfEmpty runs (its calls are taken to fall in one
\* millisecond), 10 days after the origin of the model's time axis
SeedTime == 10 * MS_PER_DAY

\* the instants the clock is sampled at: the seeding time and every second
\* day boundary after it (the seeded rentals are due 1 day before and 2 days
\* after the seeding time)
Instants == { SeedTime + k * (2 * MS_PER_DAY) : k \in 0..MaxSamples }

NoActiveMsg == "No active rental found for this asset."

-----------------------------------------------------------------------------
(* Seed data *)

\* demoAssets: the three assets the demo rentals reference; the other seeded
\* assets are idle and unreferenced, as gen-150-1 is but for its closed rental
DemoAssets(t) ==
  << [id |-> "exc-320-1", status |-> "rented", site |-> "Yard A", lastSeenAt |-> t],
     [id |-> "ldr-950-1", status |-> "rented", site |-> "Yard A", lastSeenAt |-> t],
     [id |-> "gen-150-1", status |-> "idle",   site |-> "Yard A", lastSeenAt |-> t] >>

\* r_demo1 due 2 days before the seeding time instead of 2 days after it
DemoRentalsBothOverdue(t) ==
  << [id |-> "r_demo1", assetId |-> "exc-320-1", site |-> "Construction Site A",
      checkOutAt |-> t - 7 * MS_PER_DAY, checkInAt |-> t - 2 * MS_PER_DAY,
      createdAt |-> t - 7 * MS_PER_DAY, returnedAt |-> null],
     [id |-> "r_demo2", assetId |-> "ldr-950-1", site |-> "Mining Site B",
      checkOutAt |-> t - 3 * MS_PER_DAY, checkInAt |-> t - 1 * MS_PER_DAY,
      createdAt |-> t - 3 * MS_PER_DAY, returnedAt |-> null],
     [id |-> "r_demo3", assetId |-> "gen-150-1", site |-> "Event Center",
      checkOutAt |-> t - 10 * MS_PER_DAY, checkInAt |-> t - 8 * MS_PER_DAY,
      createdAt |-> t - 10 * MS_PER_DAY, returnedAt |-> t - 7 * MS_PER_DAY] >>

\* demoRentals
DemoRentals(t) ==
  << [id |-> "r_demo1", assetId |-> "exc-320-1", site |-> "Construction Site A",
      checkOutAt |-> t - 7 * MS_PER_DAY, checkInAt |-> t + 2 * MS_PER_DAY,
      createdAt |-> t - 7 * MS_PER_DAY, returnedAt |-> null],
     [id |-> "r_demo2", assetId |-> "ldr-950-1", site |-> "Mining Site B",
      checkOutAt |-> t - 3 * MS_PER_DAY, checkInAt |-> t - 1 * MS_PER_DAY,
      createdAt |-> t - 3 * MS_PER_DAY, returnedAt |-> null],
     [id |-> "r_demo3", assetId |-> "gen-150-1", site |-> "Event Center",
      checkOutAt |-> t - 10 * MS_PER_DAY, checkInAt |-> t - 8 * MS_PER_DAY,
      createdAt |-> t - 10 * MS_PER_DAY, returnedAt |-> t - 7 * MS_PER_DAY] >>

-----------------------------------------------------------------------------
(* Router *)

\* hashes the address bar can hold: empty, the three registered paths, and a
\* path no route is registered for
Hashes == {"", "#/dashboard", "#/rent", "#/history", "#/unknown"}

Routes == {"#/dashboard", "#/rent", "#/history"}

\* parseHash: window.location.hash || '#/dashboard'
parseHash(h) == IF h = "" THEN "#/dashboard" ELSE h

\* the dashboard rendered whatever the hash is
RouteOfDashboardOnly(h) == "#/dashboard"

\* routes[path] taken without the fallback to the dashboard's route
RouteOfNoFallback(h) == IF h = "" THEN "#/dashboard" ELSE h

\* handleRoute: routes[path] || routes['#/dashboard']
RouteOf(h) == IF parseHash(h) \in Routes THEN parseHash(h) ELSE "#/dashboard"

\* renderDashboard ends with app.addEventListener('click', ...): every render
\* of the dashboard registers one more listener on #app
ListenersAfterRender(h, n) == IF RouteOf(h) = "#/dashboard" THEN n + 1 ELSE n

-----------------------------------------------------------------------------
(* Helpers over the two collections *)

\* Array.prototype.findIndex / find: the first index satisfying, 0 when none
RECURSIVE FirstFrom(_, _, _, _)
FirstFrom(s, i, a, activeOnly) ==
  IF i > Len(s) THEN 0
  ELSE IF s[i].assetId = a /\ (~activeOnly \/ s[i].returnedAt = null) THEN i
  ELSE FirstFrom(s, i + 1, a, activeOnly)

\* rentals.find(r => r.assetId === assetId && !r.returnedAt)
ActiveIndex(rs, a) == FirstFrom(rs, 1, a, TRUE)

RECURSIVE AssetFrom(_, _, _)
AssetFrom(s, i, a) ==
  IF i > Len(s) THEN 0
  ELSE IF s[i].id = a THEN i
  ELSE AssetFrom(s, i + 1, a)

\* assets.findIndex(a => a.id === assetId)
AssetIndex(as, a) == AssetFrom(as, 1, a)

AssetIds(as) == { as[i].id : i \in 1..Len(as) }

\* rentals.filter(r => !r.returnedAt) restricted to one asset
ActiveOf(rs, a) == { i \in 1..Len(rs) : rs[i].assetId = a /\ rs[i].returnedAt = null }

\* uid(): a random identifier, taken to be fresh; the rental appended to a
\* list of n rentals gets r_<n+1>, the asset appended to n assets new-<n+1>
NewRentalId(rs) == "r_" \o ToString(Len(rs) + 1)

NewAssetId(as) == "new-" \o ToString(Len(as) + 1)

-----------------------------------------------------------------------------
(* Storage: the storage object over localStorage *)

\* DB_KEYS.assets, DB_KEYS.rentals
DB_KEYS == {"srt_assets", "srt_rentals"}

\* the text of a JSON array, as its tokens: the brackets and, between them,
\* the elements in order; <<>> stands for an absent key (getItem gives null)
JSONstringify(list) == <<"[">> \o list \o <<"]">>

\* JSON.parse of such a text
JSONparse(raw) == SubSeq(raw, 2, Len(raw) - 1)

\* localStorage.clear()
EmptyStorage == [k \in DB_KEYS |-> <<>>]

\* storage.get(key, fallback): raw ? JSON.parse(raw) : fallback, and the
\* fallback when getItem or JSON.parse throws (ok = FALSE)
storageGet(ls, key, fallback, ok) ==
  IF ~ok THEN fallback
  ELSE IF ls[key] = <<>> THEN fallback
  ELSE JSONparse(ls[key])

\* the new value added to the stored one instead of replacing it
storageSetMerging(ls, key, value, ok) ==
  IF ok THEN [ls EXCEPT ![key] =
                <<"[">> \o (IF @ = <<>> THEN <<>> ELSE SubSeq(@, 2, Len(@) - 1))
                        \o value \o <<"]">>]
  ELSE ls

\* the key removed before a write that then fails
storageSetClearing(ls, key, value, ok) ==
  IF ok THEN [ls EXCEPT ![key] = <<"[">> \o value \o <<"]">>]
  ELSE [ls EXCEPT ![key] = <<>>]

\* storage.set(key, value): localStorage.setItem(key, JSON.stringify(value)),
\* nothing written when stringify or setItem throws (ok = FALSE)
storageSet(ls, key, value, ok) ==
  IF ok THEN [ls EXCEPT ![key] = JSONstringify(value)] ELSE ls

-----------------------------------------------------------------------------
(* Seeding: seedIfEmpty *)

\* localStorage.clear(); assets = storage.get(DB_KEYS.assets, []);
\* if (assets.length > 0) return; ... setAssets(demoAssets)
seedIfEmptyAssets(as, t) ==
  LET stored == storageGet(EmptyStorage, "srt_assets", <<>>, TRUE) IN
  IF Len(stored) > 0 THEN stored ELSE DemoAssets(t)

\* the same call's effect on the rentals: cleared, then
\* setRentals(demoRentals) unless the guard returned
seedIfEmptyRentals(as, rs, t) ==
  LET stored == storageGet(EmptyStorage, "srt_assets", <<>>, TRUE) IN
  IF Len(stored) > 0
  THEN storageGet(EmptyStorage, "srt_rentals", <<>>, TRUE)
  ELSE DemoRentals(t)

-----------------------------------------------------------------------------
(* The rent form's fields *)

\* the named controls of #rent-form in document order
FieldOrder ==
  <<"assetId", "site", "checkOutAt", "checkInAt", "customerName",
    "customerPhone", "customerEmail", "fuelAtStart", "odometerAtStart",
    "notes">>

FormFields == { FieldOrder[i] : i \in 1..Len(FieldOrder) }

\* the asset select without the required attribute
RequiredFieldsNoAsset ==
  {"site", "checkOutAt", "checkInAt", "customerName", "customerPhone"}

\* the phone input without the required attribute
RequiredFieldsNoPhone ==
  {"assetId", "site", "checkOutAt", "checkInAt", "customerName"}

\* the controls that carry the required attribute
RequiredFields ==
  {"assetId", "site", "checkOutAt", "checkInAt", "customerName",
   "customerPhone"}

\* the first control, in document order, that the browser's constraint
\* validation finds invalid when the fields of 'missing' are left empty
\* ("" when the form is valid and 'submit' is dispatched)
RECURSIVE InvalidFrom(_, _)
InvalidFrom(i, missing) ==
  IF i > Len(FieldOrder) THEN ""
  ELSE IF FieldOrder[i] \in missing /\ FieldOrder[i] \in RequiredFields
       THEN FieldOrder[i]
       ELSE InvalidFrom(i + 1, missing)

FirstInvalid(missing) == InvalidFrom(1, missing)

-----------------------------------------------------------------------------
(* Check-out: the rent form's submit handler *)

\* the rental object built from the form
NewRental(rs, a, site, checkIn, t) ==
  [id |-> NewRentalId(rs), assetId |-> a, site |-> site,
   checkOutAt |-> t, checkInAt |-> checkIn, createdAt |-> t,
   returnedAt |-> null]

\* the rental pushed on an empty list instead of the stored one
CheckOutRentalsFresh(rs, a, site, checkIn, t) ==
  << NewRental(rs, a, site, checkIn, t) >>

\* rentals.push(rental); setRentals(rentals)
CheckOutRentals(rs, a, site, checkIn, t) ==
  Append(rs, NewRental(rs, a, site, checkIn, t))

\* the status assignment left out
CheckOutAssetsKeepStatus(as, a, site, t) ==
  LET idx == AssetFrom(as, 1, a) IN
  IF idx = 0 THEN as
  ELSE [as EXCEPT ![idx] = [@ EXCEPT !.site = site, !.lastSeenAt = t]]

\* if (idx >= 0) { status = 'rented'; site = rental.site; lastSeenAt = now }
CheckOutAssets(as, a, site, t) ==
  LET idx == AssetIndex(as, a) IN
  IF idx = 0 THEN as
  ELSE [as EXCEPT ![idx] = [@ EXCEPT !.status = "rented", !.site = site,
                                     !.lastSeenAt = t]]

-----------------------------------------------------------------------------
(* Check-in: handleCheckIn *)

\* the asset's first rental taken, returned or not
CheckInRentalsAnyRental(rs, a, t) ==
  LET i == FirstFrom(rs, 1, a, FALSE) IN
  IF i = 0 THEN rs ELSE [rs EXCEPT ![i].returnedAt = t]

\* if (!active) return alert(...); active.returnedAt = now; setRentals(rentals)
CheckInRentals(rs, a, t) ==
  LET i == ActiveIndex(rs, a) IN
  IF i = 0 THEN rs ELSE [rs EXCEPT ![i].returnedAt = t]

\* the asset's site reset as well
CheckInAssetsResetSite(as, rs, a, t) ==
  LET idx == AssetFrom(as, 1, a) IN
  IF ActiveIndex(rs, a) = 0 \/ idx = 0 THEN as
  ELSE [as EXCEPT ![idx] = [@ EXCEPT !.status = "idle", !.site = "Yard A",
                                     !.lastSeenAt = t]]

\* if (idx >= 0) { status = 'idle'; lastSeenAt = now; setAssets(assets) },
\* reached only when an active rental was found
CheckInAssets(as, rs, a, t) ==
  LET idx == AssetIndex(as, a) IN
  IF ActiveIndex(rs, a) = 0 \/ idx = 0 THEN as
  ELSE [as EXCEPT ![idx] = [@ EXCEPT !.status = "idle", !.lastSeenAt = t]]

\* the alert left out
CheckInNoAlert(rs, a) == ""

\* the alert handleCheckIn raises
CheckInAlert(rs, a) == IF ActiveIndex(rs, a) = 0 THEN NoActiveMsg ELSE ""

-----------------------------------------------------------------------------
(* Derived status: dashboard (renderDashboard) and history view
   (renderRentalHistory) *)

\* Math.floor in place of Math.ceil
MathFloorDiv(x, d) == x \div d

\* Math.ceil(x / d) for integers x and d > 0 (the double-precision quotient
\* is exact enough for every difference between two dates of this range)
MathCeilDiv(x, d) == IF x % d = 0 THEN x \div d ELSE (x \div d) + 1

\* overdueRentals filter: if (r.returnedAt) return false; return checkInDate < now
DashOverdueRental(r, t) == IF r.returnedAt # null THEN FALSE ELSE r.checkInAt < t

\* isOverdue = activeRental && new Date(activeRental.checkInAt) < now
DashIsOverdue(rs, a, t) ==
  ActiveIndex(rs, a) # 0 /\ rs[ActiveIndex(rs, a)].checkInAt < t

\* status = activeRental ? (isOverdue ? 'OVERDUE' : 'Rented') : 'Available'
DashStatus(rs, a, t) ==
  IF ActiveIndex(rs, a) # 0
  THEN (IF DashIsOverdue(rs, a, t) THEN "OVERDUE" ELSE "Rented")
  ELSE "Available"

\* Overdue by ${Math.ceil((now - checkInAt) / (1000*60*60*24))} days
DashOverdueDays(r, t) == MathCeilDiv(t - r.checkInAt, MS_PER_DAY)

\* rentBtn = activeRental ? Check In button : Check Out link
rentBtn(rs, a) == IF ActiveIndex(rs, a) # 0 THEN "Check In" ELSE "Check Out"

\* overdueRentals.length, the count of the dashboard's Overdue Alert
DashOverdueAlertCount(rs, t) ==
  Cardinality({ i \in 1..Len(rs) : DashOverdueRental(rs[i], t) })

\* the number of asset cards the dashboard labels OVERDUE
DashOverdueLabelCount(as, rs, t) ==
  Cardinality({ j \in 1..Len(as) : DashStatus(rs, as[j].id, t) = "OVERDUE" })

\* Total Equipment: assets.length
StatTotal(as) == Len(as)

\* Available: assets.filter(a => a.status === 'idle').length
StatAvailable(as) == Cardinality({ j \in 1..Len(as) : as[j].status = "idle" })

\* Rented: getRentedCount() = rentals.filter(r => !r.returnedAt).length
getRentedCount(rs) == Cardinality({ i \in 1..Len(rs) : rs[i].returnedAt = null })

\* the test of returnedAt left out
HistIsOverdueIgnoringReturn(r, t) == r.checkInAt < t

\* <= in place of <
HistIsOverdueOrDue(r, t) == r.returnedAt = null /\ r.checkInAt <= t

\* isOverdue = !rental.returnedAt && new Date(rental.checkInAt) < now
HistIsOverdue(r, t) == r.returnedAt = null /\ r.checkInAt < t

\* isReturned = !!rental.returnedAt
HistIsReturned(r) == r.returnedAt # null

\* >= in place of >
HistIsLateOrOnTime(r) == r.returnedAt # null /\ r.returnedAt >= r.checkInAt

\* isLate = isReturned && returnedAt > checkInAt
HistIsLate(r) == HistIsReturned(r) /\ r.returnedAt > r.checkInAt

\* statusText
HistStatusText(r, t) ==
  IF HistIsOverdue(r, t) THEN "OVERDUE"
  ELSE IF HistIsReturned(r) THEN (IF HistIsLate(r) THEN "Returned Late" ELSE "Returned")
  ELSE "Active"

\* one step of the sort: r placed after the rentals of s created at or after
\* it (Array.prototype.sort is stable)
InsertNewestFirst(s, r) ==
  LET k == Cardinality({ i \in 1..Len(s) : s[i].createdAt >= r.createdAt }) IN
  SubSeq(s, 1, k) \o <<r>> \o SubSeq(s, k + 1, Len(s))

RECURSIVE SortFrom(_, _, _)
SortFrom(rs, i, acc) ==
  IF i > Len(rs) THEN acc
  ELSE SortFrom(rs, i + 1, InsertNewestFirst(acc, rs[i]))

\* sortedRentals = rentals.sort((a, b) => new Date(b.createdAt) -
\* new Date(a.createdAt)): the order the history view lists the rentals in
sortedRentals(rs) == SortFrom(rs, 1, <<>>)

\* the history view writing its sorted list back
RentalsAfterRenderSorted(h, rs) ==
  IF h = "#/history" THEN sortedRentals(rs) ELSE rs

\* the rental list in the store after the view of hash h is rendered:
\* renderDashboard, renderRentForm and renderRentalHistory call getRentals()
\* and never setRentals(); the history view sorts the array it parsed
RentalsAfterRender(h, rs) == rs

\* the asset list in the store after the view of hash h is rendered: the
\* views call getAssets() and never setAssets()
AssetsAfterRender(h, as) == as

\* overdueCount = rentals.filter(r => !r.returnedAt && checkInAt < now).length
HistOverdueCount(rs, t) ==
  Cardinality({ i \in 1..Len(rs) : rs[i].returnedAt = null /\ rs[i].checkInAt < t })

\* overdueDays = isOverdue ? Math.ceil((now - checkInAt) / day) : 0
HistOverdueDays(r, t) ==
  IF HistIsOverdue(r, t) THEN MathCeilDiv(t - r.checkInAt, MS_PER_DAY) ELSE 0

\* lateDays = isLate ? Math.ceil((returnedAt - checkInAt) / day) : 0
HistLateDays(r) ==
  IF HistIsLate(r) THEN MathCeilDiv(r.returnedAt - r.checkInAt, MS_PER_DAY) ELSE 0

-----------------------------------------------------------------------------
(* Observer of a check-out that a check-in of the same asset follows *)

NoPair == [stage |-> "none", assetId |-> "", assets |-> <<>>, rentals |-> <<>>]

(* Observer of the storage object: the last write and the read after it *)

NoAccess == [key |-> "", value |-> <<>>, ok |-> FALSE]

NoKv == [ls |-> EmptyStorage, put |-> NoAccess, got |-> NoAccess]

-----------------------------------------------------------------------------
(* Initial state: seedIfEmpty() then handleRoute() on the hash the page was
   opened with *)

Init ==
  /\ now = SeedTime
  /\ assets = DemoAssets(SeedTime)
  /\ rentals = DemoRentals(SeedTime)
  /\ hash \in Hashes
  /\ listeners = ListenersAfterRender(hash, 0)
  /\ pendingAsset = ""
  /\ pendingLeft = 0
  /\ alertMsg = ""
  /\ pair = NoPair
  /\ kv = NoKv
  /\ invalid = ""
  /\ crashed = FALSE

-----------------------------------------------------------------------------
(* Actions *)

\* time passes between two events
Tick ==
  /\ pendingLeft = 0
  /\ \E t \in Instants : t > now /\ now' = t
  /\ alertMsg' = ""
  /\ pair' = NoPair
  /\ UNCHANGED <<assets, rentals, hash, listeners, pendingAsset, pendingLeft>>
  /\ UNCHANGED aux

\* a nav link, the address bar or a scanned QR link changes the hash to h;
\* 'hashchange' runs handleRoute
Navigate(h) ==
  /\ pendingLeft = 0
  /\ h # hash
  /\ ListenersAfterRender(h, listeners) <= MaxListeners
  /\ hash' = h
  /\ listeners' = ListenersAfterRender(h, listeners)
  /\ alertMsg' = ""
  /\ pair' = NoPair
  /\ assets' = AssetsAfterRender(h, assets)
  /\ rentals' = RentalsAfterRender(h, rentals)
  /\ UNCHANGED <<now, pendingAsset, pendingLeft>>
  /\ UNCHANGED aux

\* in2h = new Date(now.getTime() + 2*60*60*1000), the value the form's
\* Expected Check-in field is pre-filled with (the sampled instants are whole
\* minutes, which formatDateTimeLocal keeps)
in2h(t) == t + 2 * 60 * 60 * 1000

\* the values the form is submitted with in its Expected Check-in field
CheckInChoices(t) == {in2h(t)}

\* 'submit' on #rent-form with asset a selected: the select offers every
\* stored asset and is required, so a is the id of a stored asset; ends with
\* navigate('#/dashboard'), whose hashchange renders the dashboard
SubmitRentForm(a, checkIn) ==
  /\ pendingLeft = 0
  /\ RouteOf(hash) = "#/rent"
  /\ a \in AssetIds(assets)
  /\ Len(rentals) < MaxRentals
  /\ listeners < MaxListeners
  /\ rentals' = CheckOutRentals(rentals, a, "Site X", checkIn, now)
  /\ assets' = CheckOutAssets(assets, a, "Site X", now)
  /\ hash' = "#/dashboard"
  /\ listeners' = ListenersAfterRender("#/dashboard", listeners)
  /\ alertMsg' = ""
  /\ pair' = [stage |-> "out", assetId |-> a, assets |-> assets,
              rentals |-> rentals]
  /\ UNCHANGED <<now, pendingAsset, pendingLeft>>
  /\ UNCHANGED aux

\* a click on the Check In button of asset a's dashboard card, which the
\* dashboard renders for the assets that have an active rental; the click is
\* dispatched to every listener registered on #app at that moment
ClickCheckIn(a) ==
  /\ pendingLeft = 0
  /\ RouteOf(hash) = "#/dashboard"
  /\ a \in AssetIds(assets)
  /\ ActiveIndex(rentals, a) # 0
  /\ pendingAsset' = a
  /\ pendingLeft' = listeners
  /\ alertMsg' = ""
  /\ pair' = IF pair.stage = "out" /\ pair.assetId = a
             THEN [pair EXCEPT !.stage = "outclick"] ELSE NoPair
  /\ UNCHANGED <<assets, rentals, now, hash, listeners>>
  /\ UNCHANGED aux

\* one listener of the click runs handleCheckIn(assetId); when it finds an
\* active rental it ends with renderDashboard()
HandleCheckIn ==
  /\ pendingLeft > 0
  /\ ActiveIndex(rentals, pendingAsset) # 0 => listeners < MaxListeners
  /\ rentals' = CheckInRentals(rentals, pendingAsset, now)
  /\ assets' = CheckInAssets(assets, rentals, pendingAsset, now)
  /\ alertMsg' = CheckInAlert(rentals, pendingAsset)
  /\ listeners' = IF ActiveIndex(rentals, pendingAsset) = 0 THEN listeners
                  ELSE listeners + 1
  /\ pendingLeft' = pendingLeft - 1
  /\ pendingAsset' = IF pendingLeft = 1 THEN "" ELSE pendingAsset
  /\ pair' = IF pair.stage = "outclick" THEN [pair EXCEPT !.stage = "outin"]
             ELSE NoPair
  /\ UNCHANGED <<now, hash>>
  /\ UNCHANGED aux

\* 'submit' on #add-equipment-form, opened from the dashboard's
\* + Add Equipment button; ends with renderDashboard()
AddEquipment ==
  /\ pendingLeft = 0
  /\ RouteOf(hash) = "#/dashboard"
  /\ Len(assets) < Len(DemoAssets(SeedTime)) + MaxNewAssets
  /\ listeners < MaxListeners
  /\ assets' = Append(assets, [id |-> NewAssetId(assets), status |-> "idle",
                               site |-> "Yard N", lastSeenAt |-> now])
  /\ listeners' = listeners + 1
  /\ alertMsg' = ""
  /\ pair' = NoPair
  /\ UNCHANGED <<rentals, now, hash, pendingAsset, pendingLeft>>
  /\ UNCHANGED aux

Next ==
  \/ Tick
  \/ \E h \in Hashes \ {""} : Navigate(h)
  \/ \E a \in AssetIds(assets), checkIn \in CheckInChoices(now) :
       SubmitRentForm(a, checkIn)
  \/ \E a \in AssetIds(assets) : ClickCheckIn(a)
  \/ HandleCheckIn
  \/ AddEquipment

Spec == Init /\ [][Next]_vars

-----------------------------------------------------------------------------
(* The storage object on its own: collections written and read back *)

\* the collections written under a key: the lists of at most MaxLen
\* elements drawn from the seed's first two assets, or from its overdue and
\* its returned rental
SampleItems(key) ==
  IF key = "srt_assets"
  THEN { DemoAssets(SeedTime)[1], DemoAssets(SeedTime)[2] }
  ELSE { DemoRentals(SeedTime)[2], DemoRentals(SeedTime)[3] }

SampleLists(key) ==
  UNION { [1..n -> SampleItems(key)] : n \in 0..MaxLen }

\* a browser profile whose localStorage is empty
InitStorage ==
  /\ now = SeedTime
  /\ assets = <<>>
  /\ rentals = <<>>
  /\ hash = ""
  /\ listeners = 0
  /\ pendingAsset = ""
  /\ pendingLeft = 0
  /\ alertMsg = ""
  /\ pair = NoPair
  /\ kv = NoKv
  /\ invalid = ""
  /\ crashed = FALSE

\* storage.set(key, value); assets and rentals are what getAssets() and
\* getRentals() return afterwards
StorageSet(key, value, ok) ==
  /\ kv' = [ls |-> storageSet(kv.ls, key, value, ok),
            put |-> [key |-> key, value |-> value, ok |-> ok],
            got |-> NoAccess]
  /\ assets' = storageGet(kv'.ls, "srt_assets", <<>>, TRUE)
  /\ rentals' = storageGet(kv'.ls, "srt_rentals", <<>>, TRUE)
  /\ UNCHANGED <<now, hash, listeners, pendingAsset, pendingLeft, alertMsg,
                 pair, invalid, crashed>>

\* storage.get(key, [])
StorageGet(key, ok) ==
  /\ kv' = [kv EXCEPT !.got = [key |-> key,
                               value |-> storageGet(kv.ls, key, <<>>, ok),
                               ok |-> ok]]
  /\ UNCHANGED <<assets, rentals, now, hash, listeners, pendingAsset,
                 pendingLeft, alertMsg, pair, invalid, crashed>>

NextStorage ==
  \/ \E key \in DB_KEYS, ok \in BOOLEAN :
       \E value \in SampleLists(key) : StorageSet(key, value, ok)
  \/ \E key \in DB_KEYS, ok \in BOOLEAN : StorageGet(key, ok)

SpecStorage == InitStorage /\ [][NextStorage]_vars

-----------------------------------------------------------------------------
(* Page loads: the session of Spec with the page loaded again *)

\* the page is loaded (again) on the current hash: the script registers the
\* routes and the hashchange listener, then runs seedIfEmpty() and
\* handleRoute().  seedIfEmpty() starts with localStorage.clear(), outside
\* any try: when the browser denies access to localStorage (ok = FALSE) the
\* exception leaves the script before anything is seeded or rendered.
PageLoad(ok) ==
  /\ pendingLeft = 0
  /\ IF ok
     THEN /\ assets' = seedIfEmptyAssets(assets, now)
          /\ rentals' = seedIfEmptyRentals(assets, rentals, now)
          /\ listeners' = ListenersAfterRender(hash, 0)
          /\ crashed' = FALSE
     ELSE /\ UNCHANGED <<assets, rentals>>
          /\ listeners' = 0
          /\ crashed' = TRUE
  /\ pendingAsset' = ""
  /\ alertMsg' = ""
  /\ pair' = NoPair
  /\ invalid' = ""
  /\ UNCHANGED <<now, hash, pendingLeft, kv>>

NextReload ==
  \/ crashed = FALSE /\ Next
  \/ \E ok \in BOOLEAN : PageLoad(ok)

SpecReload == Init /\ [][NextReload]_vars

-----------------------------------------------------------------------------
(* The rent form: submissions with fields left empty *)

\* the sets of fields a submission leaves empty: at most MaxMissing of the
\* required fields and the notes (the other optional fields are read by the
\* handler as the notes are, with a default for the empty value)
MissingChoices ==
  { m \in SUBSET (FormFields \ {"customerEmail", "fuelAtStart",
                                  "odometerAtStart"}) :
      Cardinality(m) <= MaxMissing }

\* a click on Confirm Check-out with asset a selected, the Expected Check-in
\* field holding checkIn, and the fields of 'missing' left empty.  The
\* browser validates the form first: with a required control empty it
\* reports that control and dispatches no 'submit'.  Otherwise the submit
\* handler runs on the form data; new Date('').toISOString() throws for an
\* empty date field, before anything is stored.
RentFormSubmit(a, checkIn, missing) ==
  LET aid == IF "assetId" \in missing THEN "" ELSE a
      site == IF "site" \in missing THEN "" ELSE "Site X"
      throws == "checkOutAt" \in missing \/ "checkInAt" \in missing
  IN
  /\ pendingLeft = 0
  /\ RouteOf(hash) = "#/rent"
  /\ IF FirstInvalid(missing) # ""
     THEN /\ UNCHANGED <<assets, rentals, hash, listeners>>
          /\ invalid' = FirstInvalid(missing)
     ELSE IF throws
     THEN UNCHANGED <<assets, rentals, hash, listeners, invalid>>
     ELSE /\ Len(rentals) < MaxRentals
          /\ listeners < MaxListeners
          /\ rentals' = CheckOutRentals(rentals, aid, site, checkIn, now)
          /\ assets' = CheckOutAssets(assets, aid, site, now)
          /\ hash' = "#/dashboard"
          /\ listeners' = ListenersAfterRender("#/dashboard", listeners)
          /\ UNCHANGED invalid
  /\ alertMsg' = ""
  /\ pair' = NoPair
  /\ UNCHANGED <<now, pendingAsset, pendingLeft, kv, crashed>>

NextForm ==
  \/ Tick
  \/ \E h \in Hashes \ {""} : Navigate(h)
  \/ \E a \in AssetIds(assets), checkIn \in CheckInChoices(now) :
       \E missing \in MissingChoices : RentFormSubmit(a, checkIn, missing)

SpecForm == Init /\ [][NextForm]_vars

-----------------------------------------------------------------------------
(* Failing writes: check-out and check-in with storage.set calls that may
   throw *)

\* what getAssets() / getRentals() returns after setAssets(new) /
\* setRentals(new) on a store that held old: new when the write took place,
\* old when setItem threw (ok = FALSE)
Persist(key, old, new, ok) ==
  storageGet(storageSet([EmptyStorage EXCEPT ![key] = JSONstringify(old)],
                        key, new, ok),
             key, <<>>, TRUE)

\* the rent form's submit handler: setRentals(rentals), then
\* setAssets(assets) on the asset list read after it, then
\* navigate('#/dashboard'); neither write's outcome is looked at
SubmitRentFormFaulty(a, checkIn, okR, okA) ==
  /\ pendingLeft = 0
  /\ RouteOf(hash) = "#/rent"
  /\ a \in AssetIds(assets)
  /\ Len(rentals) < MaxRentals
  /\ listeners < MaxListeners
  /\ rentals' = Persist("srt_rentals", rentals,
                        CheckOutRentals(rentals, a, "Site X", checkIn, now), okR)
  /\ assets' = Persist("srt_assets", assets,
                       CheckOutAssets(assets, a, "Site X", now), okA)
  /\ hash' = "#/dashboard"
  /\ listeners' = ListenersAfterRender("#/dashboard", listeners)
  /\ alertMsg' = ""
  /\ pair' = [stage |-> "out", assetId |-> a, assets |-> assets,
              rentals |-> rentals]
  /\ UNCHANGED <<now, pendingAsset, pendingLeft>>
  /\ UNCHANGED aux

\* one listener's handleCheckIn(assetId): setRentals(rentals), then
\* setAssets(assets) on the asset list read after it, then renderDashboard()
HandleCheckInFaulty(okR, okA) ==
  /\ pendingLeft > 0
  /\ ActiveIndex(rentals, pendingAsset) # 0 => listeners < MaxListeners
  /\ rentals' = Persist("srt_rentals", rentals,
                        CheckInRentals(rentals, pendingAsset, now), okR)
  /\ assets' = Persist("srt_assets", assets,
                       CheckInAssets(assets, rentals, pendingAsset, now), okA)
  /\ alertMsg' = CheckInAlert(rentals, pendingAsset)
  /\ listeners' = IF ActiveIndex(rentals, pendingAsset) = 0 THEN listeners
                  ELSE listeners + 1
  /\ pendingLeft' = pendingLeft - 1
  /\ pendingAsset' = IF pendingLeft = 1 THEN "" ELSE pendingAsset
  /\ pair' = IF pair.stage = "outclick" THEN [pair EXCEPT !.stage = "outin"]
             ELSE NoPair
  /\ UNCHANGED <<now, hash>>
  /\ UNCHANGED aux

NextFaulty ==
  \/ Tick
  \/ \E h \in Hashes \ {""} : Navigate(h)
  \/ \E a \in AssetIds(assets), checkIn \in CheckInChoices(now) :
       \E okR \in BOOLEAN, okA \in BOOLEAN :
         SubmitRentFormFaulty(a, checkIn, okR, okA)
  \/ \E a \in AssetIds(assets) : ClickCheckIn(a)
  \/ \E okR \in BOOLEAN, okA \in BOOLEAN : HandleCheckInFaulty(okR, okA)

SpecFaulty == Init /\ [][NextFaulty]_vars

-----------------------------------------------------------------------------
(* Properties *)

Rentals == { rentals[i] : i \in 1..Len(rentals) }

\* the step is one listener's call of handleCheckIn
ListenerRuns == pendingLeft > 0 /\ pendingLeft' = pendingLeft - 1

\* the step is a rent-form submission for asset a
CheckOutOf(a) == pair'.stage = "out" /\ pair'.assetId = a

\* n is the ceiling of x / MS_PER_DAY: the least n with n days >= x
IsCeilDays(n, x) == n * MS_PER_DAY >= x /\ (n - 1) * MS_PER_DAY < x

\* C1: in every reachable state each asset is referenced by at most one
\* rental whose returnedAt is null.
AtMostOneActive ==
  \A a \in AssetIds(assets) : Cardinality(ActiveOf(rentals, a)) <= 1

\* C2: in every reachable state an asset's stored status is 'rented' if and
\* only if some rental references it with returnedAt null, and 'idle'
\* otherwise.
StatusMatchesRentals ==
  \A i \in 1..Len(assets) :
    assets[i].status =
      (IF ActiveOf(rentals, assets[i].id) # {} THEN "rented" ELSE "idle")

\* C3: a check-out submitted for an asset that already has an active rental
\* fails: no rental is appended, no asset field changes, and the conflict is
\* surfaced to the user.
CheckOutConflictRejected ==
  [][\A a \in AssetIds(assets) :
       (CheckOutOf(a) /\ ActiveIndex(rentals, a) # 0)
         => (rentals' = rentals /\ assets' = assets /\ alertMsg' # "")]_vars

\* C4: a check-in for an asset with no active rental fails: the user is
\* alerted and the persisted rentals and assets are left exactly as they were.
CheckInWithoutActiveFails ==
  [][(ListenerRuns /\ ActiveOf(rentals, pendingAsset) = {})
       => (rentals' = rentals /\ assets' = assets /\ alertMsg' = NoActiveMsg)]_vars

\* C4 witness: a handleCheckIn call has just found no active rental.
CheckInWithoutActiveSeen ==
  /\ alertMsg = NoActiveMsg
  /\ pendingLeft = 0
  /\ \E i \in 1..Len(rentals) : rentals[i].returnedAt = now

\* C5: a successful check-out of an existing asset with no active rental
\* appends exactly one new rental with returnedAt null for that asset, leaves
\* the previously stored rentals unchanged and in the same order, and sets
\* that asset's status to 'rented'.
CheckOutAppendsOne ==
  [][\A a \in AssetIds(assets) :
       (CheckOutOf(a) /\ ActiveOf(rentals, a) = {})
         => /\ Len(rentals') = Len(rentals) + 1
            /\ SubSeq(rentals', 1, Len(rentals)) = rentals
            /\ rentals'[Len(rentals')].assetId = a
            /\ rentals'[Len(rentals')].returnedAt = null
            /\ Len(assets') = Len(assets)
            /\ \A i \in 1..Len(assets) :
                 assets[i].id = a => assets'[i].status = "rented"]_vars

\* C5 witness: the last step checked out an asset that had no active rental.
CheckOutOfFreeAssetSeen ==
  /\ pair.stage = "out"
  /\ ActiveOf(pair.rentals, pair.assetId) = {}
  /\ Len(rentals) = Len(pair.rentals) + 1

\* C6: a successful check-in of an asset sets returnedAt of that asset's
\* active rental to the current time and sets the asset's status to 'idle',
\* so that afterwards the asset has no active rental.
CheckInClosesAsset ==
  [][(ListenerRuns /\ ActiveOf(rentals, pendingAsset) # {})
       => /\ \E i \in ActiveOf(rentals, pendingAsset) :
               rentals'[i].returnedAt = now
          /\ \A j \in 1..Len(assets) :
               assets[j].id = pendingAsset => assets'[j].status = "idle"
          /\ ActiveOf(rentals', pendingAsset) = {}]_vars

\* C7: for any idle asset, a check-out followed immediately by a check-in of
\* the same asset leaves the asset 'idle' and the rental just created with
\* returnedAt equal to the check-in time; every other asset's status and
\* every other rental is as before the pair of operations.
CheckOutThenCheckIn ==
  (/\ pair.stage = "outin"
   /\ \E j \in 1..Len(pair.assets) :
        pair.assets[j].id = pair.assetId /\ pair.assets[j].status = "idle")
    => /\ \A j \in 1..Len(assets) :
            assets[j].status =
              (IF assets[j].id = pair.assetId THEN "idle" ELSE pair.assets[j].status)
       /\ Len(rentals) = Len(pair.rentals) + 1
       /\ rentals[Len(rentals)].returnedAt = now
       /\ \A i \in 1..Len(pair.rentals) : rentals[i] = pair.rentals[i]

\* C8: a rental is classified overdue at time now if and only if returnedAt
\* is null and now is strictly greater than checkInAt, in the dashboard and
\* in the history view; once returnedAt is set the rental is classified
\* overdue at no time whatever.
OverdueIffActiveAndPastDue ==
  \A r \in Rentals :
    /\ DashOverdueRental(r, now) <=> (r.returnedAt = null /\ now > r.checkInAt)
    /\ HistIsOverdue(r, now) <=> (r.returnedAt = null /\ now > r.checkInAt)
    /\ r.returnedAt # null =>
         \A t \in Instants \cup {r.checkInAt + 1, r.returnedAt + MS_PER_DAY} :
           ~DashOverdueRental(r, t) /\ ~HistIsOverdue(r, t)

\* C8 witness: one rental is overdue, its expected return is now for another,
\* and a rental checked in during the session is past its expected return.
OverdueCasesSeen ==
  /\ \E r \in Rentals : r.returnedAt = null /\ now > r.checkInAt
  /\ \E r \in Rentals : r.returnedAt = null /\ now = r.checkInAt
  /\ \E r \in Rentals : r.returnedAt >= SeedTime /\ now > r.checkInAt

\* C9: for an overdue rental, overdueDays is the ceiling of (now - checkInAt)
\* in whole days, in the dashboard and in the history view; a rental whose
\* checkInAt is exactly 3 days before now has overdueDays = 3.
OverdueDaysIsCeiling ==
  /\ \A r \in Rentals :
       (r.returnedAt = null /\ now > r.checkInAt)
         => /\ IsCeilDays(HistOverdueDays(r, now), now - r.checkInAt)
            /\ (now - r.checkInAt = 3 * MS_PER_DAY => HistOverdueDays(r, now) = 3)
  /\ \A a \in AssetIds(assets) :
       DashStatus(rentals, a, now) = "OVERDUE"
         => LET r == rentals[ActiveIndex(rentals, a)] IN
            /\ IsCeilDays(DashOverdueDays(r, now), now - r.checkInAt)
            /\ (now - r.checkInAt = 3 * MS_PER_DAY => DashOverdueDays(r, now) = 3)

\* C9 witness: an active rental is exactly 3 days past its expected return
\* and is the one its asset's dashboard card shows.
ThreeDaysOverdueSeen ==
  \E a \in AssetIds(assets) :
    /\ DashStatus(rentals, a, now) = "OVERDUE"
    /\ now - rentals[ActiveIndex(rentals, a)].checkInAt = 3 * MS_PER_DAY

RentalIds(rs) == { rs[i].id : i \in 1..Len(rs) }

\* the rentals of a list that are not returned and were due before time t
PastDueActive(rs, t) ==
  { i \in 1..Len(rs) : rs[i].returnedAt = null /\ rs[i].checkInAt < t }

\* C11: a page load that seeds the (cleared, hence empty) store leaves a
\* non-empty asset list and a non-empty rental list in which exactly one
\* rental has returnedAt null together with a checkInAt earlier than the
\* seeding time.
SeedHasOneOverdueRental ==
  [][PageLoad(TRUE) =>
       /\ Len(assets') > 0
       /\ Len(rentals') > 0
       /\ Cardinality(PastDueActive(rentals', now')) = 1]_vars

\* C11 witness: the store holds what a page load seeded after the session's
\* first instant.
SeededAgainSeen ==
  /\ now > SeedTime
  /\ crashed = FALSE
  /\ assets = DemoAssets(now)
  /\ rentals = DemoRentals(now)
  /\ Cardinality(PastDueActive(rentals, now)) = 1

\* C12: when the persisted asset list is non-empty at a page load, the load
\* (seedIfEmpty) leaves the persisted assets and rentals unchanged.
ReloadKeepsStoredData ==
  [][(PageLoad(TRUE) /\ Len(assets) > 0) =>
       (assets' = assets /\ rentals' = rentals)]_vars

SetRuns == kv' # kv /\ kv'.got = NoAccess /\ kv'.put # NoAccess

\* C14: a write that succeeds makes the written collection the whole value
\* under its key, whatever was stored there, and leaves the other key alone;
\* a write that fails leaves every persisted value as it was.
WriteReplacesOrKeeps ==
  [][SetRuns =>
       IF kv'.put.ok
       THEN /\ kv'.put.key = "srt_assets" =>
                 (assets' = kv'.put.value /\ rentals' = rentals)
            /\ kv'.put.key = "srt_rentals" =>
                 (rentals' = kv'.put.value /\ assets' = assets)
       ELSE assets' = assets /\ rentals' = rentals /\ kv'.ls = kv.ls]_vars

\* C14 witness: the last write failed on a key that holds a non-empty list
\* different from the one it was to write.
FailedWriteSeen ==
  /\ kv.put.key = "srt_rentals"
  /\ ~kv.put.ok
  /\ kv.got = NoAccess
  /\ Len(rentals) > 0
  /\ rentals # kv.put.value

\* C15: no storage failure is fatal: no exception raised by a storage access
\* leaves the operation that made it.
StorageFailureNotFatal == crashed = FALSE

\* C16: once a rental's returnedAt is non-null, no step of the session
\* changes it.
ReturnedAtWrittenOnce ==
  [][\A i \in 1..Len(rentals) :
       rentals[i].returnedAt # null =>
         /\ i <= Len(rentals')
         /\ rentals'[i].id = rentals[i].id
         /\ rentals'[i].returnedAt = rentals[i].returnedAt]_vars

\* C16 witness: two rentals of one asset were both checked in during the
\* session, the second one later than the first.
TwoReturnsOfOneAssetSeen ==
  \E i, j \in 1..Len(rentals) :
    /\ i < j
    /\ rentals[i].assetId = rentals[j].assetId
    /\ rentals[i].returnedAt >= SeedTime
    /\ rentals[j].returnedAt > rentals[i].returnedAt

\* C17: no step of the session removes an asset id from the asset list or a
\* rental id from the rental list.
NoElementLost ==
  [][/\ AssetIds(assets) \subseteq AssetIds(assets')
     /\ RentalIds(rentals) \subseteq RentalIds(rentals')]_vars

\* C17 witness: the session has added an asset, checked an asset out and
\* checked a rental in, and the seeded ids are all still there.
GrownListsSeen ==
  /\ Len(assets) > Len(DemoAssets(SeedTime))
  /\ Len(rentals) > Len(DemoRentals(SeedTime))
  /\ \E r \in Rentals : r.returnedAt >= SeedTime
  /\ AssetIds(DemoAssets(SeedTime)) \subseteq AssetIds(assets)
  /\ RentalIds(DemoRentals(SeedTime)) \subseteq RentalIds(rentals)

\* C18: a handleCheckIn call that finds an active rental changes returnedAt
\* of exactly one rental and nothing else in the rental list, and status and
\* lastSeenAt of the asset checked in and nothing else in the asset list.
CheckInFrame ==
  [][(ListenerRuns /\ ActiveOf(rentals, pendingAsset) # {}) =>
       /\ \E i \in 1..Len(rentals) :
            /\ rentals[i].returnedAt = null
            /\ rentals'[i].returnedAt # null
            /\ rentals'[i].checkInAt = rentals[i].checkInAt
            /\ rentals' = [rentals EXCEPT ![i].returnedAt = rentals'[i].returnedAt]
       /\ \E j \in 1..Len(assets) :
            /\ assets[j].id = pendingAsset
            /\ assets' = [assets EXCEPT ![j].status = assets'[j].status,
                                        ![j].lastSeenAt = assets'[j].lastSeenAt]
     ]_vars

\* C18 witness: a rental checked out during the session at another site was
\* checked in before its expected return, and its asset is idle, still at
\* that site.
CheckInOfSessionRentalSeen ==
  \E r \in Rentals :
    /\ r.createdAt >= SeedTime
    /\ r.returnedAt # null
    /\ r.returnedAt < r.checkInAt
    /\ \E j \in 1..Len(assets) :
         /\ assets[j].id = r.assetId
         /\ assets[j].status = "idle"
         /\ assets[j].site = r.site
         /\ assets[j].site # "Yard A"
         /\ assets[j].lastSeenAt = r.returnedAt

\* C19: in every reachable state the assetId of every rental is the id of an
\* asset of the asset list.
RentalsReferenceAssets ==
  \A r \in Rentals : r.assetId \in AssetIds(assets)

\* C19 witness: a submission with no asset selected was stopped by the
\* browser, and a later one checked an asset out.
AssetlessSubmissionStoppedSeen ==
  /\ invalid = "assetId"
  /\ \E r \in Rentals : r.createdAt >= SeedTime /\ r.assetId \in AssetIds(assets)

\* the six fields the rent form must have filled
SixRequired ==
  {"assetId", "site", "checkOutAt", "checkInAt", "customerName",
   "customerPhone"}

\* the step is a rent-form submission that leaves one of the six empty
IncompleteSubmission ==
  \E missing \in { m \in MissingChoices : m \cap SixRequired # {} } :
    \E a \in AssetIds(assets), checkIn \in CheckInChoices(now) :
      RentFormSubmit(a, checkIn, missing)

\* C20: a rent-form submission with any of the six required fields left
\* empty appends no rental, changes no asset and leaves the view on the
\* rent form; that is, no step taken on the rent form that changes the
\* rentals, the assets or the hash is such a submission.
IncompleteSubmissionRejected ==
  [][(/\ RouteOf(hash) = "#/rent"
      /\ (rentals' # rentals \/ assets' # assets \/ hash' # hash))
       => ~IncompleteSubmission]_vars

\* C20 witness: the browser stopped a submission whose only empty required
\* field was the phone, and the rent form is still shown.
PhonelessSubmissionStoppedSeen ==
  /\ invalid = "customerPhone"
  /\ RouteOf(hash) = "#/rent"
  /\ pair = NoPair

\* hashes that name the rental form's or the history view's route
DeepLinks == {"#/rent", "#/history"}

\* C21 as stated: when the application starts, the first view rendered is the
\* dashboard.
InitialViewIsDashboard == Init => RouteOf(hash) = "#/dashboard"

\* C21: when the application starts, the first view rendered is the one the
\* hash of the page's address names: the rental form on #/rent, the history
\* view on #/history, and the dashboard (whose render registers the first
\* click listener) on an empty or unregistered hash.
InitialViewFollowsHash ==
  Init =>
    /\ hash \in DeepLinks => (RouteOf(hash) = hash /\ listeners = 0)
    /\ hash \notin DeepLinks => (RouteOf(hash) = "#/dashboard" /\ listeners = 1)

\* C21 witness: the application has just started on the rental form, as it
\* does from a scanned QR link.
StartedOnRentFormSeen ==
  /\ Init
  /\ hash = "#/rent"
  /\ RouteOf(hash) = "#/rent"
  /\ listeners = 0

\* C22: in every reachable state the hash resolves to exactly one of the
\* three registered views, and to the dashboard when it is empty or names no
\* registered route.
AlwaysOneOfThreeViews ==
  /\ RouteOf(hash) \in Routes
  /\ Cardinality(Routes) = 3
  /\ hash \notin Routes => RouteOf(hash) = "#/dashboard"
  /\ hash \in Routes => RouteOf(hash) = hash

\* C22 witness: a navigation to an unregistered path has rendered the
\* dashboard once more.
UnregisteredPathSeen ==
  /\ hash = "#/unknown"
  /\ RouteOf(hash) = "#/dashboard"
  /\ listeners > 1

\* C23: in every reachable state the number of assets the dashboard labels
\* OVERDUE equals the count of the dashboard's overdue alert, which equals
\* the Overdue count of the history view.
OverdueCountsAgree ==
  /\ DashOverdueLabelCount(assets, rentals, now) =
       DashOverdueAlertCount(rentals, now)
  /\ DashOverdueAlertCount(rentals, now) = HistOverdueCount(rentals, now)

\* C24: in every reachable state the dashboard's Available count plus its
\* Rented count equals its Total Equipment count.
StatsAddUp ==
  StatAvailable(assets) + getRentedCount(rentals) = StatTotal(assets)

\* C25: one click on a Check In button runs handleCheckIn once: no click
\* leaves more than one handleCheckIn call to run.
OneClickOneCheckIn == pendingLeft <= 1

\* the step is a hashchange that no form submission caused: handleRoute
\* renders the view of the new hash and nothing else runs
RenderOnly == hash' # hash /\ pair'.stage # "out"

\* C26: rendering the dashboard, the rental form or the history view leaves
\* the persisted asset list and rental list unchanged in content and order.
RenderIsReadOnly ==
  [][RenderOnly => (assets' = assets /\ rentals' = rentals)]_vars

\* C26 witness: the history view is shown after a navigation, and the order
\* it lists the rentals in is not the order they are stored in.
HistoryShownUnsortedStoreSeen ==
  /\ hash = "#/history"
  /\ listeners >= 1
  /\ Len(rentals) > 1
  /\ sortedRentals(rentals) # rentals

\* asset a's stored status says 'rented' exactly when a has an active rental
StatusAgrees(as, rs, a) ==
  \A j \in 1..Len(as) :
    as[j].id = a => (as[j].status = "rented" <=> ActiveOf(rs, a) # {})

\* the step is a check-out or a check-in of asset a in which one of the two
\* writes fails
FailedWriteOn(a) ==
  \E okR \in BOOLEAN, okA \in BOOLEAN :
    /\ ~(okR /\ okA)
    /\ \/ \E checkIn \in CheckInChoices(now) :
            SubmitRentFormFaulty(a, checkIn, okR, okA)
       \/ /\ pendingAsset = a
          /\ ActiveIndex(rentals, a) # 0
          /\ HandleCheckInFaulty(okR, okA)

\* C27: when one of the two writes of a check-out or a check-in of an asset
\* fails, the asset's stored status, which agreed with its active rentals
\* before, still agrees with them afterwards.
AtomicUnderWriteFailure ==
  [][\A a \in AssetIds(assets) :
       (StatusAgrees(assets, rentals, a) /\ FailedWriteOn(a)) =>
         StatusAgrees(assets', rentals', a)]_vars

\* the four statuses of the history view
HistStatuses == {"Active", "OVERDUE", "Returned", "Returned Late"}

\* C28: at any time the history view gives every rental exactly one of the
\* four statuses, the one of its case (overdue; returned late; returned on
\* time; neither overdue nor returned); no rental is both overdue and
\* returned or late, and overdueDays and lateDays are never both non-zero.
HistoryStatusExclusive ==
  \A r \in Rentals :
    /\ HistStatusText(r, now) \in HistStatuses
    /\ HistStatusText(r, now) = "OVERDUE" <=> HistIsOverdue(r, now)
    /\ HistStatusText(r, now) = "Returned Late" <=> HistIsLate(r)
    /\ HistStatusText(r, now) = "Returned" <=>
         (HistIsReturned(r) /\ ~HistIsLate(r))
    /\ HistStatusText(r, now) = "Active" <=>
         (~HistIsReturned(r) /\ ~HistIsOverdue(r, now))
    /\ ~(HistIsOverdue(r, now) /\ (HistIsReturned(r) \/ HistIsLate(r)))
    /\ ~(HistOverdueDays(r, now) # 0 /\ HistLateDays(r) # 0)

\* C28 witness: the rental list holds a rental of each of the four statuses,
\* and a returned rental whose expected return lies in the past.
FourStatusesSeen ==
  /\ \A st \in HistStatuses : \E r \in Rentals : HistStatusText(r, now) = st
  /\ \E r \in Rentals : HistIsReturned(r) /\ r.checkInAt < now

\* C29: in every reachable state the dashboard offers Check In for exactly
\* the assets that have a rental with returnedAt null and Check Out for the
\* others, and no check-in triggered from the dashboard has raised the
\* 'No active rental' alert.
DashboardOffersOneAction ==
  /\ \A j \in 1..Len(assets) :
       /\ rentBtn(rentals, assets[j].id) \in {"Check In", "Check Out"}
       /\ rentBtn(rentals, assets[j].id) = "Check In" <=>
            ActiveOf(rentals, assets[j].id) # {}
  /\ alertMsg # NoActiveMsg

====
